---- MODULE Spec2Model ----
(***************************************************************************)
(* Model of the PR feedback auditor                                        *)
(*   src/skills/tools/pr-feedback-audit/scripts/check_pr_feedback.py       *)
(* One audit run (main): fetch the review threads, classify each of them,  *)
(* optionally auto-resolve the addressed ones, emit the report.            *)
(* SpecOverlap exercises check_diff_overlap alone, over diff texts.        *)
(* and of the review dashboard                                             *)
(*   src/skills/development/review-dashboard/scripts/review_dashboard.py   *)
(* SpecDiscover is find_user_prs over the answers of the three searches,   *)
(* SpecAct is one run of the act subcommand.                               *)
(***************************************************************************)
EXTENDS Integers, Sequences, FiniteSets, TLC

VARIABLES
    args,        \* the command-line options main has read so far
    threads,     \* the list of ReviewThread of the run
    pc,          \* position of main: fetch, classify, resolve, output, done, exited, crashed
    i,           \* index of the thread the current loop is at
    classified,  \* status/diff_evidence of every thread as classify_threads returned them
    git_log,     \* the git commands run so far, with their outcomes
    gh_log,      \* the resolve mutations sent so far, with their outcomes
    report,      \* what main printed on stdout
    probe,       \* one call of check_diff_overlap: its inputs and its result (SpecOverlap)
    dash         \* one run of review_dashboard.py: its inputs, position and results

runVars == <<args, threads, pc, i, classified, git_log, gh_log, report>>
vars == <<args, threads, pc, i, classified, git_log, gh_log, report, probe, dash>>

----------------------------------------------------------------------------
(* Bounds of the model *)

MaxThreads == 2
MaxLine == 2
MaxStart == 3
MaxCount == 2
MaxDiffLines == 2
MaxPerSearch == 2

----------------------------------------------------------------------------
(* Python values *)

\* Optional[T]: None is the empty tuple, a present value v is <<v>>
None == <<>>
Some(v) == <<v>>

\* truth value of an Optional[int]: None and 0 are false
TruthyInt(o) == o # None /\ o[1] # 0

\* truth value of an Optional[str]: None and "" are false
TruthyStr(o) == o # None /\ o[1] # ""

\* class Status(Enum)
RESOLVED == "Resolved"
OUTDATED == "Outdated"
ADDRESSED == "Addressed"
UNRESOLVED == "Unresolved"
Status == <<RESOLVED, OUTDATED, ADDRESSED, UNRESOLVED>>

----------------------------------------------------------------------------
(* Text *)

Char(s, k) == SubSeq(s, k, k)

Digits == {"0", "1", "2", "3", "4", "5", "6", "7", "8", "9"}

DigitVal(c) ==
    CASE c = "0" -> 0 [] c = "1" -> 1 [] c = "2" -> 2 [] c = "3" -> 3
      [] c = "4" -> 4 [] c = "5" -> 5 [] c = "6" -> 6 [] c = "7" -> 7
      [] c = "8" -> 8 [] c = "9" -> 9

\* int(text) of a non-empty run of decimal digits
RECURSIVE int(_)
int(text) ==
    IF Len(text) = 0 THEN 0
    ELSE 10 * int(SubSeq(text, 1, Len(text) - 1)) + DigitVal(Char(text, Len(text)))

\* text[k:].startswith(lit), k counted from 1
StartsWithAt(s, k, lit) ==
    /\ k + Len(lit) - 1 <= Len(s)
    /\ SubSeq(s, k, k + Len(lit) - 1) = lit

\* the position after the longest run of digits that starts at k (regex \d+, greedy)
RECURSIVE DigitsEnd(_, _)
DigitsEnd(s, k) ==
    IF k <= Len(s) /\ Char(s, k) \in Digits THEN DigitsEnd(s, k + 1) ELSE k

\* the substring test "sub in s"
Contains(s, sub) ==
    \E k \in 1..(Len(s) - Len(sub) + 1) : SubSeq(s, k, k + Len(sub) - 1) = sub

Whitespace == {" ", "\t", "\n", "\r", "\f"}

\* not text.strip()
IsBlank(text) == \A k \in 1..Len(text) : Char(text, k) \in Whitespace

----------------------------------------------------------------------------
(* Subprocesses: what subprocess.run(..., timeout=30) can come back with *)

\* a completed process, or the timeout (subprocess.TimeoutExpired is raised)
Completed(code, out) == [timed_out |-> FALSE, returncode |-> code, stdout |-> out]
TimedOut == [timed_out |-> TRUE, returncode |-> 0, stdout |-> ""]

\* run_git: None on a non-zero exit, stdout otherwise; the timeout is not caught
run_git(run) ==
    IF run.timed_out THEN [raised |-> TRUE, value |-> None]
    ELSE IF run.returncode # 0 THEN [raised |-> FALSE, value |-> None]
    ELSE [raised |-> FALSE, value |-> Some(run.stdout)]

----------------------------------------------------------------------------
(* parse_diff_hunks *)

\* re.match of  @@ -(\d+)(?:,(\d+))? \+  at position k: the groups and the end, or None
MatchHunkHeader(s, k) ==
    IF ~StartsWithAt(s, k, "@@ -") THEN None
    ELSE LET p1 == k + 4
             e1 == DigitsEnd(s, p1)
             e2 == DigitsEnd(s, e1 + 1)
         IN  IF e1 = p1 THEN None
             ELSE IF StartsWithAt(s, e1, ",") /\ e2 > e1 + 1 /\ StartsWithAt(s, e2, " +")
                  THEN Some([group1 |-> SubSeq(s, p1, e1 - 1),
                             group2 |-> Some(SubSeq(s, e1 + 1, e2 - 1)),
                             end |-> e2 + 2])
             ELSE IF StartsWithAt(s, e1, " +")
                  THEN Some([group1 |-> SubSeq(s, p1, e1 - 1),
                             group2 |-> None,
                             end |-> e1 + 2])
             ELSE None

\* variant: ^ without re.MULTILINE, the start of the text only
AtLineStart_TextStartOnly(s, k) == k = 1

\* ^ under re.MULTILINE: the start of the text or the position after a newline
AtLineStart(s, k) == k = 1 \/ Char(s, k - 1) = "\n"

\* the (start, count) of one match: count is 1 when group 2 did not take part
HunkOf(m) ==
    [start |-> int(m.group1),
     count |-> IF TruthyStr(m.group2) THEN int(m.group2[1]) ELSE 1]

\* re.finditer from position k on: the matches left to right, without overlap
RECURSIVE FindHunks(_, _)
FindHunks(s, k) ==
    IF k > Len(s) THEN <<>>
    ELSE LET m == IF AtLineStart(s, k) THEN MatchHunkHeader(s, k) ELSE None
         IN  IF m # None THEN <<HunkOf(m[1])>> \o FindHunks(s, m[1].end)
             ELSE FindHunks(s, k + 1)

parse_diff_hunks(diff_output) == FindHunks(diff_output, 1)

----------------------------------------------------------------------------
(* check_diff_overlap *)

\* variant: the line just after the hunk does not count
HunkOverlaps_Exclusive(hunk, original_line) ==
    hunk.start <= original_line /\ original_line < hunk.start + hunk.count

\* the test of one hunk against the commented line
HunkOverlaps(hunk, original_line) ==
    hunk.start <= original_line /\ original_line <= hunk.start + hunk.count

\* for start, count in hunks: return on the first hunk that overlaps
RECURSIVE ScanHunks(_, _, _)
ScanHunks(hunks, k, original_line) ==
    IF k > Len(hunks)
    THEN [has_overlap |-> FALSE,
          evidence |-> "no hunk overlaps line " \o ToString(original_line)]
    ELSE IF HunkOverlaps(hunks[k], original_line)
    THEN [has_overlap |-> TRUE,
          evidence |-> "hunk @@ -" \o ToString(hunks[k].start) \o ","
                       \o ToString(hunks[k].count) \o " overlaps line "
                       \o ToString(original_line)]
    ELSE ScanHunks(hunks, k + 1, original_line)

\* the two git commands of check_diff_overlap
DiffArgs(oid, path) == <<"diff", oid, "HEAD", "--", path>>
CatFileArgs(path) == <<"cat-file", "-t", "HEAD:" \o path>>

\* variants: the outcome of git cat-file is not looked at
DiffMissing_AlwaysFailed(check) == [has_overlap |-> FALSE, evidence |-> "diff failed"]
DiffMissing_AlwaysDeleted(check) == [has_overlap |-> TRUE, evidence |-> "file deleted"]

\* variant: the test of the outcome of git cat-file is the wrong way round
DiffMissing_Inverted(check) ==
    IF check # None THEN [has_overlap |-> TRUE, evidence |-> "file deleted"]
    ELSE [has_overlap |-> FALSE, evidence |-> "diff failed"]

\* what check_diff_overlap does when the diff came back None
DiffMissing(check) ==
    IF check = None THEN [has_overlap |-> TRUE, evidence |-> "file deleted"]
    ELSE [has_overlap |-> FALSE, evidence |-> "diff failed"]

\* check_diff_overlap, given the outcome diffRun of git diff and, should it be
\* asked for, checkRun of git cat-file. raised: a timeout left the function;
\* calls: the git commands it ran, in order.
check_diff_overlap(original_commit_oid, path, original_line, diffRun, checkRun) ==
    LET diff == run_git(diffRun)
        check == run_git(checkRun)
        diffCall == [args |-> DiffArgs(original_commit_oid[1], path), run |-> diffRun]
        checkCall == [args |-> CatFileArgs(path), run |-> checkRun]
        Ret(r, calls) == [raised |-> FALSE, has_overlap |-> r.has_overlap,
                          evidence |-> r.evidence, calls |-> calls]
        Raise(calls) == [raised |-> TRUE, has_overlap |-> FALSE,
                         evidence |-> "", calls |-> calls]
    IN  IF ~TruthyStr(original_commit_oid)
        THEN Ret([has_overlap |-> FALSE, evidence |-> "no original commit"], <<>>)
        ELSE IF diff.raised THEN Raise(<<diffCall>>)
        ELSE IF diff.value = None
        THEN IF check.raised THEN Raise(<<diffCall, checkCall>>)
             ELSE Ret(DiffMissing(check.value), <<diffCall, checkCall>>)
        ELSE IF IsBlank(diff.value[1])
        THEN Ret([has_overlap |-> FALSE, evidence |-> "no changes in file"], <<diffCall>>)
        ELSE Ret(ScanHunks(parse_diff_hunks(diff.value[1]), 1, original_line),
                 <<diffCall>>)

----------------------------------------------------------------------------
(* The review threads *)

\* ThreadComment
ThreadComment(oid, outdated) ==
    [author |-> "reviewer", body |-> "Fix this",
     created_at |-> "2026-01-01T00:00:00Z",
     outdated |-> outdated, original_commit_oid |-> oid]

\* what a reviewThreads node of the GraphQL answer can carry: originalLine is
\* null or a line number of the file (counted from 1)
OptLines == {None, Some(10)}
OptOids == {None, Some("abc123")}
Nodes ==
    {nd \in [isResolved : BOOLEAN, isOutdated : BOOLEAN,
             resolvedBy : {None, Some("admin")},
             originalLine : OptLines,
             comments : {<<>>} \cup {<<o>> : o \in OptOids}] :
        nd.resolvedBy # None => nd.isResolved}

\* ReviewThread as fetch_threads builds it from node k: status and diff_evidence
\* take the dataclass defaults
ReviewThread(k, nd) ==
    [thread_id |-> "PRRT_" \o ToString(k),
     path |-> "src/main.rs",
     line |-> nd.originalLine,
     original_line |-> nd.originalLine,
     is_resolved |-> nd.isResolved,
     is_outdated |-> nd.isOutdated,
     resolved_by |-> nd.resolvedBy,
     diff_hunk |-> IF nd.comments = <<>> THEN "" ELSE "@@ -8,5 +8,7 @@",
     comments |-> [c \in 1..Len(nd.comments) |->
                      ThreadComment(nd.comments[c], nd.isOutdated)],
     status |-> UNRESOLVED,
     diff_evidence |-> None]

----------------------------------------------------------------------------
(* classify_threads *)

\* variant: the two statuses swapped
VerdictStatus_Inverted(has_overlap) == IF has_overlap THEN UNRESOLVED ELSE ADDRESSED

\* the status that goes with the verdict of check_diff_overlap
VerdictStatus(has_overlap) == IF has_overlap THEN ADDRESSED ELSE UNRESOLVED

\* thread.resolved_by or 'unknown'
ResolvedByOrUnknown(resolved_by) ==
    IF TruthyStr(resolved_by) THEN resolved_by[1] ELSE "unknown"

\* variant: the commit is not asked for
CanVerify_LineOnly(original_commit, original_line) == TruthyInt(original_line)

\* the condition under which the diff is consulted
CanVerify(original_commit, original_line) ==
    TruthyStr(original_commit) /\ TruthyInt(original_line)

\* variants: the is_outdated test moved before the is_resolved test, and left out
Branch_OutdatedFirst(is_resolved, is_outdated) ==
    IF is_outdated THEN "outdated"
    ELSE IF is_resolved THEN "resolved"
    ELSE "diff"
Branch_IgnoresOutdated(is_resolved, is_outdated) ==
    IF is_resolved THEN "resolved" ELSE "diff"

\* which branch of the loop body takes the thread: the is_resolved test comes
\* first, the is_outdated test second, the diff analysis last
Branch(is_resolved, is_outdated) ==
    IF is_resolved THEN "resolved"
    ELSE IF is_outdated THEN "outdated"
    ELSE "diff"

\* variant: the evidence is added to the one the thread carries
SetResult_Appends(t, st, ev) ==
    [t EXCEPT !.status = st,
              !.diff_evidence = Some((IF TruthyStr(@) THEN @[1] \o "; " ELSE "") \o ev)]

\* thread.status = ...; thread.diff_evidence = ...
SetResult(t, st, ev) == [t EXCEPT !.status = st, !.diff_evidence = Some(ev)]

\* one iteration of the loop of classify_threads on thread t. raised: a git
\* timeout left classify_threads before t was written
classify_thread(t, diffRun, checkRun) ==
    LET original_commit ==
            IF Len(t.comments) > 0 THEN t.comments[1].original_commit_oid ELSE None
        branch == Branch(t.is_resolved, t.is_outdated)
        Set(st, ev, calls) ==
            [raised |-> FALSE, calls |-> calls, thread |-> SetResult(t, st, ev)]
    IN  IF branch = "resolved"
        THEN Set(RESOLVED, "resolved by " \o ResolvedByOrUnknown(t.resolved_by), <<>>)
        ELSE IF branch = "outdated"
        THEN Set(OUTDATED, "GitHub detected code changed", <<>>)
        ELSE IF CanVerify(original_commit, t.original_line)
        THEN LET r == check_diff_overlap(original_commit, t.path, t.original_line[1],
                                         diffRun, checkRun)
             IN  IF r.raised
                 THEN [raised |-> TRUE, calls |-> r.calls, thread |-> t]
                 ELSE Set(VerdictStatus(r.has_overlap), r.evidence, r.calls)
        ELSE Set(UNRESOLVED, "unable to verify (missing commit/line info)", <<>>)

----------------------------------------------------------------------------
(* resolve_thread *)

\* parsed JSON values
JDict(items) == [type |-> "dict", items |-> items]
JBool(b) == [type |-> "bool", value |-> b]
JNull == [type |-> "NoneType"]
JList == [type |-> "list"]

ResolvedDoc == "{\"data\":{\"resolveReviewThread\":{\"thread\":{\"isResolved\":true}}}}"
NotResolvedDoc == "{\"data\":{\"resolveReviewThread\":{\"thread\":{\"isResolved\":false}}}}"
NullDataDoc == "{\"data\":null,\"errors\":[{\"type\":\"FORBIDDEN\"}]}"
NoDataDoc == "{\"message\":\"Bad credentials\"}"
MalformedDoc == "<html>502 Bad Gateway</html>"

ThreadDoc(b) ==
    JDict([data |-> JDict([resolveReviewThread |->
              JDict([thread |-> JDict([isResolved |-> JBool(b)])])])])

\* json.loads on the answers above: raised stands for json.JSONDecodeError
json_loads(text) ==
    CASE text = ResolvedDoc -> [raised |-> FALSE, value |-> ThreadDoc(TRUE)]
      [] text = NotResolvedDoc -> [raised |-> FALSE, value |-> ThreadDoc(FALSE)]
      [] text = NullDataDoc ->
            [raised |-> FALSE,
             value |-> JDict([data |-> JNull, errors |-> JList])]
      [] text = NoDataDoc ->
            [raised |-> FALSE, value |-> JDict([message |-> JNull])]
      [] OTHER -> [raised |-> TRUE, value |-> JNull]

\* d.get(key, default) of a value that may not be a dict: raised stands for
\* AttributeError, and a raised d is passed on
Get(d, key, default) ==
    IF d.raised THEN d
    ELSE IF d.value.type # "dict" THEN [raised |-> TRUE, value |-> JNull]
    ELSE IF key \in DOMAIN d.value.items
    THEN [raised |-> FALSE, value |-> d.value.items[key]]
    ELSE [raised |-> FALSE, value |-> default]

\* run_gh: stdout, sys.exit(1) on a non-zero exit (exits), or the timeout (raised)
run_gh(run) ==
    IF run.timed_out THEN [raised |-> TRUE, exits |-> FALSE, value |-> ""]
    ELSE IF run.returncode # 0 THEN [raised |-> FALSE, exits |-> TRUE, value |-> ""]
    ELSE [raised |-> FALSE, exits |-> FALSE, value |-> run.stdout]

\* whether the except clause of resolve_thread catches what run_gh let out:
\* SystemExit is not an Exception
CaughtByExcept(result) == result.raised

\* resolve_thread given the outcome of the gh call. exits: SystemExit leaves the
\* function; value: what it returns otherwise
resolve_thread(thread_id, run) ==
    LET result == run_gh(run)
        EmptyDict == JDict(<<>>)
        resolved ==
            Get(Get(Get(Get(json_loads(result.value), "data", EmptyDict),
                        "resolveReviewThread", EmptyDict),
                    "thread", EmptyDict),
                "isResolved", JBool(FALSE))
    IN  IF result.exits THEN [exits |-> TRUE, value |-> FALSE]
        ELSE IF CaughtByExcept(result) THEN [exits |-> FALSE, value |-> FALSE]
        ELSE IF resolved.raised THEN [exits |-> FALSE, value |-> FALSE]
        ELSE [exits |-> FALSE,
              value |-> resolved.value.type = "bool" /\ resolved.value.value]

----------------------------------------------------------------------------
(* The reports *)

\* format_json: one entry per thread, whatever its status
format_json(ts) ==
    [k \in 1..Len(ts) |->
        [thread_id |-> ts[k].thread_id,
         path |-> ts[k].path,
         line |-> ts[k].line,
         original_line |-> ts[k].original_line,
         status |-> ts[k].status,
         is_resolved |-> ts[k].is_resolved,
         is_outdated |-> ts[k].is_outdated,
         resolved_by |-> ts[k].resolved_by,
         diff_evidence |-> ts[k].diff_evidence,
         comments |-> [c \in 1..Len(ts[k].comments) |->
                          [author |-> ts[k].comments[c].author,
                           body |-> ts[k].comments[c].body,
                           created_at |-> ts[k].comments[c].created_at,
                           outdated |-> ts[k].comments[c].outdated]]]]

\* one row of the detail table of format_markdown
MarkdownRow(t) ==
    [thread_id |-> t.thread_id,
     status |-> t.status,
     loc |-> IF TruthyInt(t.original_line)
             THEN t.path \o ":" \o ToString(t.original_line[1])
             ELSE t.path,
     reviewer |-> IF Len(t.comments) > 0 THEN t.comments[1].author ELSE "?",
     body |-> IF Len(t.comments) > 0 THEN t.comments[1].body ELSE "",
     evidence |-> IF TruthyStr(t.diff_evidence) THEN t.diff_evidence[1] ELSE ""]

\* format_markdown: the threads kept, the summary counts, the detail rows and the
\* threads of the action-required section
format_markdown(ts, exclude_resolved) ==
    LET Keep(t) == t.status # RESOLVED
        shown == IF exclude_resolved THEN SelectSeq(ts, Keep) ELSE ts
        IsUnresolved(t) == t.status = UNRESOLVED
        present == {shown[k].status : k \in 1..Len(shown)}
    IN  IF Len(shown) = 0
        THEN [all_resolved |-> TRUE, summary |-> <<>>, rows |-> <<>>, unresolved |-> <<>>]
        ELSE [all_resolved |-> FALSE,
              summary |-> [st \in present |->
                              Cardinality({k \in 1..Len(shown) : shown[k].status = st})],
              rows |-> [k \in 1..Len(shown) |-> MarkdownRow(shown[k])],
              unresolved |-> LET u == SelectSeq(shown, IsUnresolved)
                             IN  [k \in 1..Len(u) |-> u[k].thread_id]]

----------------------------------------------------------------------------
(* main *)

\* what the external commands can come back with
RunDiffs ==
    {"",
     "@@ -8,5 +8,7 @@ fn something() {\n+new line\n",
     "@@ -50,3 +50,5 @@ fn other() {\n+new line\n"}
GitDiffRuns == {TimedOut, Completed(128, "")} \cup {Completed(0, d) : d \in RunDiffs}
CatFileRuns == {TimedOut, Completed(128, ""), Completed(0, "blob\n")}
ResolveRuns ==
    {TimedOut, Completed(1, "")}
    \cup {Completed(0, d) :
            d \in {ResolvedDoc, NotResolvedDoc, NullDataDoc, NoDataDoc, MalformedDoc}}

\* status and evidence of each thread, as kept for reference
Snapshot(ts) ==
    [k \in 1..Len(ts) |-> [status |-> ts[k].status, diff_evidence |-> ts[k].diff_evidence]]

Init ==
    /\ args = [auto_resolve |-> None, json_output |-> None, exclude_resolved |-> None]
    /\ threads = <<>>
    /\ pc = "fetch"
    /\ i = 1
    /\ classified = None
    /\ git_log = <<>>
    /\ gh_log = <<>>
    /\ report = None
    /\ probe = None
    /\ dash = None

\* threads = fetch_threads(...): the collaborator returns the complete list
Fetch ==
    /\ pc = "fetch"
    /\ \E n \in 0..MaxThreads :
         \E nodes \in [1..n -> Nodes] :
            threads' = [k \in 1..n |-> ReviewThread(k, nodes[k])]
    /\ pc' = "classify"
    /\ i' = 1
    /\ UNCHANGED <<args, classified, git_log, gh_log, report, probe, dash>>

\* run_gh inside fetch_threads exits the process when gh fails
FetchFail ==
    /\ pc = "fetch"
    /\ pc' = "exited"
    /\ UNCHANGED <<args, threads, i, classified, git_log, gh_log, report, probe, dash>>

\* the outcomes worth drawing for the git commands of thread t: a command that
\* is not run has no outcome to draw, so one stands for all
DiffRunsFor(t) ==
    IF classify_thread(t, TimedOut, TimedOut).raised THEN GitDiffRuns ELSE {TimedOut}
CatFileRunsFor(t, diffRun) ==
    IF ~diffRun.timed_out /\ classify_thread(t, diffRun, TimedOut).raised
    THEN CatFileRuns ELSE {TimedOut}

\* one iteration of the loop of classify_threads
ClassifyThread ==
    /\ pc = "classify"
    /\ i <= Len(threads)
    /\ \E diffRun \in DiffRunsFor(threads[i]) :
         \E checkRun \in CatFileRunsFor(threads[i], diffRun) :
            LET r == classify_thread(threads[i], diffRun, checkRun)
            IN  /\ git_log' = git_log \o [c \in 1..Len(r.calls) |->
                                             [thread |-> i, args |-> r.calls[c].args,
                                              run |-> r.calls[c].run]]
                /\ IF r.raised
                   THEN pc' = "crashed" /\ UNCHANGED <<threads, i>>
                   ELSE /\ threads' = [threads EXCEPT ![i] = r.thread]
                        /\ i' = i + 1
                        /\ pc' = pc
    /\ UNCHANGED <<args, classified, gh_log, report, probe, dash>>

\* variant: the return of classify_threads sits inside its loop
ClassifyReturn_InsideLoop ==
    /\ pc = "classify"
    /\ i > Len(threads) \/ i > 1
    /\ classified' = Some(Snapshot(threads))
    /\ \E auto_resolve \in BOOLEAN :
         /\ args' = [args EXCEPT !.auto_resolve = Some(auto_resolve)]
         /\ pc' = IF auto_resolve THEN "resolve" ELSE "output"
    /\ i' = 1
    /\ UNCHANGED <<threads, git_log, gh_log, report, probe, dash>>

\* classify_threads returns; main reads --auto-resolve and goes on to the
\* auto-resolve loop or to the output. An option is a fixed input of the run that
\* main reads once: it is drawn where it is read.
ClassifyReturn ==
    /\ pc = "classify"
    /\ i > Len(threads)
    /\ classified' = Some(Snapshot(threads))
    /\ \E auto_resolve \in BOOLEAN :
         /\ args' = [args EXCEPT !.auto_resolve = Some(auto_resolve)]
         /\ pc' = IF auto_resolve THEN "resolve" ELSE "output"
    /\ i' = 1
    /\ UNCHANGED <<threads, git_log, gh_log, report, probe, dash>>

\* variant: every thread that is not RESOLVED is sent
ShouldResolve_NotResolved(t) == t.status # RESOLVED

\* variant: outdated threads are sent as well
ShouldResolve_OrOutdated(t) == t.status \in {ADDRESSED, OUTDATED}

\* the threads the auto-resolve loop sends to resolve_thread
ShouldResolve(t) == t.status = ADDRESSED

\* variant: the evidence is replaced, not extended
MarkResolved_Replaces(t) ==
    [t EXCEPT !.status = RESOLVED, !.diff_evidence = Some("(auto-resolved)")]

\* variant: the flag of the platform is set along with the status
MarkResolved_SetsFlag(t) ==
    [t EXCEPT !.status = RESOLVED, !.is_resolved = TRUE,
              !.diff_evidence = Some((IF TruthyStr(@) THEN @[1] ELSE "")
                                     \o " (auto-resolved)")]

\* what the loop writes to a thread whose resolve_thread returned True
MarkResolved(t) ==
    [t EXCEPT !.status = RESOLVED,
              !.diff_evidence = Some((IF TruthyStr(@) THEN @[1] ELSE "")
                                     \o " (auto-resolved)")]

\* one iteration of the auto-resolve loop of main
AutoResolveThread ==
    /\ pc = "resolve"
    /\ i <= Len(threads)
    /\ IF ShouldResolve(threads[i])
       THEN \E run \in ResolveRuns :
              LET success == resolve_thread(threads[i].thread_id, run)
              IN  /\ gh_log' = Append(gh_log, [thread |-> i,
                                               thread_id |-> threads[i].thread_id,
                                               run |-> run])
                  /\ IF success.exits
                     THEN pc' = "exited" /\ UNCHANGED <<threads, i>>
                     ELSE /\ threads' =
                               IF success.value
                               THEN [threads EXCEPT ![i] = MarkResolved(@)]
                               ELSE threads
                          /\ i' = i + 1
                          /\ pc' = pc
       ELSE /\ i' = i + 1
            /\ UNCHANGED <<threads, pc, gh_log>>
    /\ UNCHANGED <<args, classified, git_log, report, probe, dash>>

\* the auto-resolve loop is over
AutoResolveDone ==
    /\ pc = "resolve"
    /\ i > Len(threads)
    /\ pc' = "output"
    /\ UNCHANGED <<args, threads, i, classified, git_log, gh_log, report, probe, dash>>

\* main reads --json and --exclude-resolved and prints
\* format_json(threads) or format_markdown(threads, exclude_resolved)
Output ==
    /\ pc = "output"
    /\ \E json_output \in BOOLEAN, exclude_resolved \in BOOLEAN :
         /\ args' = [args EXCEPT !.json_output = Some(json_output),
                                 !.exclude_resolved = Some(exclude_resolved)]
         /\ report' = Some(IF json_output
                           THEN format_json(threads)
                           ELSE format_markdown(threads, exclude_resolved))
    /\ pc' = "done"
    /\ UNCHANGED <<threads, i, classified, git_log, gh_log, probe, dash>>

Next ==
    \/ Fetch
    \/ FetchFail
    \/ ClassifyThread
    \/ ClassifyReturn
    \/ AutoResolveThread
    \/ AutoResolveDone
    \/ Output

Spec == Init /\ [][Next]_vars

----------------------------------------------------------------------------
(* check_diff_overlap on its own, over diff texts *)

\* hunk-header lines "@@ -<start>[,<count>] +<start>,1 @@"
HeaderLine(start, count) ==
    "@@ -" \o ToString(start)
    \o (IF count = None THEN "" ELSE "," \o ToString(count[1]))
    \o " +" \o ToString(start) \o ",1 @@"
HeaderLines ==
    {HeaderLine(st, c) : st \in 0..MaxStart,
                         c \in {None} \cup {Some(n) : n \in 0..MaxCount}}

\* lines of a diff that are no hunk header, or not quite one
OtherLines ==
    {"", " ", "+new line", " @@ -1,1 +1,1 @@", "@@ -x +1 @@", "@@ -2, +2 @@",
     "@@ -01,02 +1,2 @@"}

\* the texts of at most n lines, each line ended by a newline
RECURSIVE TextsUpTo(_)
TextsUpTo(n) ==
    IF n = 0 THEN {""}
    ELSE LET shorter == TextsUpTo(n - 1)
         IN  shorter \cup {t \o l \o "\n" : t \in shorter, l \in HeaderLines \cup OtherLines}

DiffTexts == TextsUpTo(MaxDiffLines)

ProbeDiffRuns == {TimedOut, Completed(128, "")} \cup {Completed(0, d) : d \in DiffTexts}

\* the arguments of the call
InitOverlap ==
    /\ args = [auto_resolve |-> None, json_output |-> None, exclude_resolved |-> None]
    /\ threads = <<>>
    /\ pc = "fetch"
    /\ i = 1
    /\ classified = None
    /\ git_log = <<>>
    /\ gh_log = <<>>
    /\ report = None
    /\ \E oid \in {None, Some(""), Some("abc123")}, line \in 1..MaxLine :
         probe = [original_commit_oid |-> oid, path |-> "src/main.rs",
                  original_line |-> line, diffRun |-> None, checkRun |-> None,
                  result |-> None]
    /\ dash = None

\* the call, with the outcomes of the git commands it runs
CheckDiffOverlap ==
    /\ probe.result = None
    /\ \E diffRun \in (IF TruthyStr(probe.original_commit_oid)
                       THEN ProbeDiffRuns ELSE {TimedOut}) :
         \E checkRun \in (IF run_git(diffRun) = [raised |-> FALSE, value |-> None]
                          THEN CatFileRuns ELSE {TimedOut}) :
            LET r == check_diff_overlap(probe.original_commit_oid, probe.path,
                                        probe.original_line, diffRun, checkRun)
            IN  probe' = [probe EXCEPT
                            !.diffRun = IF Len(r.calls) >= 1 THEN Some(diffRun) ELSE None,
                            !.checkRun = IF Len(r.calls) >= 2 THEN Some(checkRun) ELSE None,
                            !.result = Some(r)]
    /\ UNCHANGED <<runVars, dash>>

NextOverlap == CheckDiffOverlap

SpecOverlap == InitOverlap /\ [][NextOverlap]_vars

----------------------------------------------------------------------------
(* Properties of the classification *)

Threads == 1..Len(threads)

\* classify_threads is running and its loop has written thread k: nothing else
\* writes the thread before classify_threads returns
IsClassified(k) == pc = "classify" /\ k < i

\* the status and evidence classify_threads gave thread k
Result(k) == [status |-> threads[k].status, diff_evidence |-> threads[k].diff_evidence]

\* thread k lacks the commit or the line the diff analysis needs
LacksData(k) ==
    /\ ~threads[k].is_resolved /\ ~threads[k].is_outdated
    /\ \/ Len(threads[k].comments) = 0
       \/ threads[k].comments[1].original_commit_oid = None
       \/ threads[k].original_line = None

\* the git commands run for thread k, in order
CallsOf(k) ==
    LET ForK(e) == e.thread = k
    IN  SelectSeq(git_log, ForK)

\* the original commit of the first comment of thread k, None without comments
OriginalCommit(k) ==
    IF Len(threads[k].comments) > 0
    THEN threads[k].comments[1].original_commit_oid ELSE None

\* thread k is neither resolved nor outdated and carries a commit and a line
Verifiable(k) ==
    /\ ~threads[k].is_resolved
    /\ ~threads[k].is_outdated
    /\ OriginalCommit(k) # None
    /\ threads[k].original_line # None

\* the git command of entry e exited non-zero
Failed(e) == ~e.run.timed_out /\ e.run.returncode # 0

\* C1: a thread with is_resolved = true is classified RESOLVED with evidence
\* "resolved by <resolved_by>", "resolved by unknown" when resolved_by is absent,
\* whatever is_outdated, the comments and original_line are, and without any git
\* command being run for it.
C1_ResolvedDominates ==
    \A k \in Threads :
        (IsClassified(k) /\ threads[k].is_resolved) =>
            /\ Result(k).status = RESOLVED
            /\ Result(k).diff_evidence =
                  Some(IF threads[k].resolved_by = None
                       THEN "resolved by unknown"
                       ELSE "resolved by " \o threads[k].resolved_by[1])
            /\ CallsOf(k) = <<>>

\* a resolved thread that is also outdated, has no resolver and carries commit and
\* line has been classified
C1_Witness ==
    \E k \in Threads :
        /\ IsClassified(k)
        /\ threads[k].is_resolved /\ threads[k].is_outdated
        /\ threads[k].resolved_by = None
        /\ OriginalCommit(k) # None /\ threads[k].original_line # None
        /\ Result(k).status = RESOLVED

\* C2: a thread with is_resolved = false and is_outdated = true is classified
\* OUTDATED, no git command is run for it, and when its turn comes every outcome
\* of the git commands gives the same result.
C2_OutdatedWhateverTheDiff ==
    \A k \in Threads :
        (~threads[k].is_resolved /\ threads[k].is_outdated) =>
            /\ IsClassified(k) =>
                  Result(k).status = OUTDATED /\ CallsOf(k) = <<>>
            /\ (pc = "classify" /\ k = i) =>
                  \A diffRun \in GitDiffRuns, checkRun \in CatFileRuns :
                     LET r == classify_thread(threads[k], diffRun, checkRun)
                     IN  /\ ~r.raised
                         /\ r.calls = <<>>
                         /\ r.thread.status = OUTDATED
                         /\ r.thread.diff_evidence =
                               Some("GitHub detected code changed")

\* an outdated, unresolved thread that carries commit and line has been classified
C2_Witness ==
    \E k \in Threads :
        /\ IsClassified(k)
        /\ ~threads[k].is_resolved /\ threads[k].is_outdated
        /\ OriginalCommit(k) # None /\ threads[k].original_line # None
        /\ Result(k).status = OUTDATED

\* C3: for a thread that is neither resolved nor outdated and carries an original
\* commit and an original line, git diff is run with that commit and the thread's
\* path, the status is ADDRESSED exactly when check_diff_overlap on (commit, path,
\* line) reports overlap, UNRESOLVED otherwise, and the evidence is the checker's.
C3_StatusFollowsChecker ==
    \A k \in Threads :
        (IsClassified(k) /\ Verifiable(k)) =>
            LET calls == CallsOf(k)
                r == check_diff_overlap(OriginalCommit(k), threads[k].path,
                                        threads[k].original_line[1], calls[1].run,
                                        IF Len(calls) >= 2 THEN calls[2].run ELSE TimedOut)
            IN  /\ Len(calls) >= 1
                /\ calls[1].args = <<"diff", OriginalCommit(k)[1], "HEAD", "--",
                                     threads[k].path>>
                /\ ~r.raised
                /\ Len(calls) = Len(r.calls)
                /\ Result(k).status = (IF r.has_overlap THEN ADDRESSED ELSE UNRESOLVED)
                /\ Result(k).diff_evidence = Some(r.evidence)

\* a verifiable thread was classified ADDRESSED on an overlapping hunk and another
\* UNRESOLVED on a diff without one
C3_Witness ==
    /\ \E k \in Threads :
          /\ IsClassified(k) /\ Verifiable(k)
          /\ Result(k) = [status |-> ADDRESSED,
                          diff_evidence |-> Some("hunk @@ -8,5 overlaps line 10")]
    /\ \E k \in Threads :
          /\ IsClassified(k) /\ Verifiable(k)
          /\ Result(k) = [status |-> UNRESOLVED,
                          diff_evidence |-> Some("no hunk overlaps line 10")]

\* C4: a thread that is neither resolved nor outdated and has no comments, no
\* original commit on its first comment or no original line is classified
\* UNRESOLVED with "unable to verify (missing commit/line info)", no git command is
\* run for it, and it is ADDRESSED at no point of the run.
C4_MissingDataUnresolved ==
    \A k \in Threads :
        LacksData(k) =>
            /\ IsClassified(k) =>
                  /\ Result(k) =
                        [status |-> UNRESOLVED,
                         diff_evidence |->
                             Some("unable to verify (missing commit/line info)")]
                  /\ CallsOf(k) = <<>>
            /\ threads[k].status = UNRESOLVED

\* a thread whose first comment carries no commit and a thread that carries a
\* commit but no line have both been classified
C4_Witness ==
    /\ \E k \in Threads :
          /\ IsClassified(k) /\ ~threads[k].is_resolved /\ ~threads[k].is_outdated
          /\ Len(threads[k].comments) > 0 /\ OriginalCommit(k) = None
          /\ threads[k].original_line # None
          /\ Result(k).status = UNRESOLVED
    /\ \E k \in Threads :
          /\ IsClassified(k) /\ ~threads[k].is_resolved /\ ~threads[k].is_outdated
          /\ OriginalCommit(k) # None /\ threads[k].original_line = None
          /\ Result(k).status = UNRESOLVED

----------------------------------------------------------------------------
(* Properties of check_diff_overlap (SpecOverlap) *)

\* the call has returned and git diff gave a text
DiffObtained ==
    /\ probe.result # None
    /\ probe.diffRun # None
    /\ ~probe.diffRun[1].timed_out
    /\ probe.diffRun[1].returncode = 0

\* the indexes of the parsed hunks (start, count) with start <= line <= start + count
Hits(hunks, line) ==
    {k \in 1..Len(hunks) :
        hunks[k].start <= line /\ line <= hunks[k].start + hunks[k].count}

\* the least element of a non-empty set of numbers
Least(S) == CHOOSE x \in S : \A y \in S : x <= y

\* C5: when git diff gives a text, check_diff_overlap returns overlap = true
\* exactly when some parsed hunk has start <= original_line <= start + count, the
\* evidence then names the first such hunk in diff order; without such a hunk it
\* returns (false, "no hunk overlaps line <original_line>"), and on an empty or
\* whitespace-only text (false, "no changes in file").
C5_OverlapIffHunkCovers ==
    DiffObtained =>
        LET text == probe.diffRun[1].stdout
            line == probe.original_line
            hunks == parse_diff_hunks(text)
            hits == Hits(hunks, line)
            res == probe.result[1]
        IN  /\ ~res.raised
            /\ IsBlank(text) =>
                  res.has_overlap = FALSE /\ res.evidence = "no changes in file"
            /\ (~IsBlank(text) /\ hits = {}) =>
                  /\ res.has_overlap = FALSE
                  /\ res.evidence = "no hunk overlaps line " \o ToString(line)
            /\ (~IsBlank(text) /\ hits # {}) =>
                  /\ res.has_overlap = TRUE
                  /\ res.evidence =
                        "hunk @@ -" \o ToString(hunks[Least(hits)].start) \o ","
                        \o ToString(hunks[Least(hits)].count) \o " overlaps line "
                        \o ToString(line)

\* the commented line is the line just after the second hunk of the diff, whose
\* first hunk does not cover it
C5_Witness ==
    /\ DiffObtained
    /\ LET hunks == parse_diff_hunks(probe.diffRun[1].stdout)
       IN  /\ Len(hunks) = 2
           /\ Hits(hunks, probe.original_line) = {2}
           /\ probe.original_line = hunks[2].start + hunks[2].count
    /\ probe.result[1].has_overlap

----------------------------------------------------------------------------
(* Properties of the failure paths *)

\* git diff and git cat-file were both run for thread k and both exited non-zero
BothFailed(k) ==
    LET calls == CallsOf(k)
    IN  Len(calls) = 2 /\ Failed(calls[1]) /\ Failed(calls[2])

\* git diff exited non-zero for thread k and git cat-file succeeded
DiffFailedFileThere(k) ==
    LET calls == CallsOf(k)
    IN  /\ Len(calls) = 2
        /\ Failed(calls[1])
        /\ ~calls[2].run.timed_out /\ calls[2].run.returncode = 0

\* C6: a verifiable thread whose git diff fails and whose git cat-file of the path
\* at HEAD fails too is classified ADDRESSED, with an evidence that contains
\* "deleted".
C6_DeletedFileAddressed ==
    \A k \in Threads :
        (IsClassified(k) /\ Verifiable(k) /\ BothFailed(k)) =>
            /\ Result(k).status = ADDRESSED
            /\ Contains(Result(k).diff_evidence[1], "deleted")

\* a verifiable thread was classified after both of its git commands failed
C6_Witness ==
    \E k \in Threads :
        /\ IsClassified(k) /\ Verifiable(k) /\ BothFailed(k)
        /\ Result(k).diff_evidence = Some("file deleted")

\* C7 as stated: when the diff request and the existence check both fail, the
\* thread is UNRESOLVED with evidence "diff failed".
C7_BothFailedUnresolved ==
    \A k \in Threads :
        (IsClassified(k) /\ Verifiable(k) /\ BothFailed(k)) =>
            Result(k) = [status |-> UNRESOLVED, diff_evidence |-> Some("diff failed")]

\* C7 (amended): "diff failed" and UNRESOLVED are the result when git diff exits
\* non-zero and the existence check succeeds; a thread is ADDRESSED without an
\* overlapping hunk only when git diff and the existence check both exited
\* non-zero, which the code takes as the deletion of the file.
C7_DiffFailedWhenFileThere ==
    \A k \in Threads :
        IsClassified(k) =>
            /\ (Verifiable(k) /\ DiffFailedFileThere(k)) =>
                  Result(k) = [status |-> UNRESOLVED,
                               diff_evidence |-> Some("diff failed")]
            /\ Result(k).diff_evidence = Some("diff failed") =>
                  DiffFailedFileThere(k)
            /\ Result(k).status = ADDRESSED =>
                  \/ /\ BothFailed(k)
                     /\ Result(k).diff_evidence = Some("file deleted")
                  \/ LET calls == CallsOf(k)
                     IN  /\ Len(calls) = 1
                         /\ ~calls[1].run.timed_out /\ calls[1].run.returncode = 0
                         /\ Hits(parse_diff_hunks(calls[1].run.stdout),
                                 threads[k].original_line[1]) # {}

\* a verifiable thread was classified after its git diff failed and its git
\* cat-file succeeded
C7_Witness ==
    \E k \in Threads :
        /\ IsClassified(k) /\ Verifiable(k) /\ DiffFailedFileThere(k)
        /\ Result(k).status = UNRESOLVED

----------------------------------------------------------------------------
(* Properties of the auto-resolution *)

\* the resolve mutations sent so far
Resolves == 1..Len(gh_log)

\* the gh call of entry e exited with 0 and answered isResolved: true
Succeeded(e) == e.run = Completed(0, ResolvedDoc)

\* C8: resolve_thread is called only for threads that classification left
\* ADDRESSED, and a thread that classification left RESOLVED, OUTDATED or
\* UNRESOLVED keeps its status and its evidence through the auto-resolution,
\* whatever the resolve calls of the other threads return.
C8_OnlyAddressedTouched ==
    classified # None =>
        /\ \A e \in Resolves :
              /\ classified[1][gh_log[e].thread].status = ADDRESSED
              /\ gh_log[e].thread_id = threads[gh_log[e].thread].thread_id
        /\ \A k \in Threads :
              classified[1][k].status # ADDRESSED =>
                  /\ threads[k].status = classified[1][k].status
                  /\ threads[k].diff_evidence = classified[1][k].diff_evidence

\* the auto-resolve loop is over, it resolved a thread, and a thread of each other
\* status came through it
C8_Witness ==
    /\ pc \in {"output", "done"}
    /\ \E e \in Resolves : Succeeded(gh_log[e])
    /\ \E k \in Threads : classified[1][k].status \in {UNRESOLVED, OUTDATED, RESOLVED}
    /\ \E k \in Threads : threads[k].status # classified[1][k].status

\* C9: an ADDRESSED thread whose resolve call succeeded has status RESOLVED and
\* as evidence the evidence classification gave it followed by " (auto-resolved)".
C9_EvidenceAppended ==
    \A e \in Resolves :
        Succeeded(gh_log[e]) =>
            LET k == gh_log[e].thread
            IN  /\ classified[1][k].status = ADDRESSED
                /\ threads[k].status = RESOLVED
                /\ threads[k].diff_evidence =
                      Some(classified[1][k].diff_evidence[1] \o " (auto-resolved)")

\* a thread addressed by an overlapping hunk has been auto-resolved
C9_Witness ==
    \E e \in Resolves :
        /\ Succeeded(gh_log[e])
        /\ threads[gh_log[e].thread].diff_evidence =
              Some("hunk @@ -8,5 overlaps line 10 (auto-resolved)")

\* C10: when the resolve call of an ADDRESSED thread fails (gh exits non-zero,
\* times out, answers something malformed or answers isResolved: false), the thread
\* keeps status ADDRESSED and its evidence, and the call does not end the
\* process: the loop goes on and the report is printed.
C10_ResolveFailureAbsorbed ==
    \A e \in Resolves :
        ~Succeeded(gh_log[e]) =>
            LET k == gh_log[e].thread
            IN  /\ threads[k].status = ADDRESSED
                /\ threads[k].diff_evidence = classified[1][k].diff_evidence
                /\ ~(pc = "exited" /\ e = Len(gh_log))

----------------------------------------------------------------------------
(* Properties of the batch *)

\* a git command run for thread k timed out
TimedOutFor(k) ==
    \E e \in 1..Len(git_log) : git_log[e].thread = k /\ git_log[e].run.timed_out

\* the evidence ev is present and not the empty string
NonEmpty(ev) == ev # None /\ ev # Some("")

\* C11: whatever the git commands of a thread come back with (text, non-zero
\* exit, timeout), classify_threads goes on: a timeout does not end it, the thread
\* whose command timed out is classified as without overlap (UNRESOLVED), and when
\* classify_threads returns every thread carries a non-empty evidence.
C11_QueryFailureAbsorbed ==
    /\ pc # "crashed"
    /\ \A k \in Threads :
          IsClassified(k) =>
              /\ NonEmpty(Result(k).diff_evidence)
              /\ TimedOutFor(k) => Result(k).status = UNRESOLVED
    /\ \A k \in Threads : TimedOutFor(k) => (pc = "classify" => k < i)

\* C12: over one run, a thread's status changes only in the iteration of
\* classify_threads that is at that thread, or, once classify_threads has
\* returned, in the iteration of the auto-resolve loop at that thread, and then
\* from ADDRESSED to RESOLVED; RESOLVED, OUTDATED and UNRESOLVED reached at
\* classification never change, so a thread is auto-resolved at most once.
C12_StatusWrites ==
    [][/\ pc # "fetch" => Len(threads') = Len(threads)
       /\ \A k \in Threads :
             (pc # "fetch" /\ threads'[k].status # threads[k].status) =>
                 \/ pc = "classify" /\ k = i
                 \/ /\ pc = "resolve" /\ k = i
                    /\ classified[1][k].status = ADDRESSED
                    /\ threads[k].status = ADDRESSED
                    /\ threads'[k].status = RESOLVED]_vars

\* the run is over: one thread went from ADDRESSED to RESOLVED in the auto-resolve
\* loop, another kept the ADDRESSED it was classified with after a resolve call
C12_Witness ==
    /\ pc = "done"
    /\ \E k \in Threads :
          classified[1][k].status = ADDRESSED /\ threads[k].status = RESOLVED
    /\ \E k \in Threads :
          /\ classified[1][k].status = ADDRESSED /\ threads[k].status = ADDRESSED
          /\ \E e \in Resolves : gh_log[e].thread = k

\* C13: no resolve call is made before classify_threads has returned with every
\* thread classified, and no git command is run once a resolve call has been
\* made: all the git commands of the run come before all its resolve calls.
C13_ClassifyThenResolve ==
    /\ [](gh_log # <<>> =>
            /\ pc \in {"resolve", "output", "done", "exited"}
            /\ classified # None
            /\ \A k \in Threads :
                  /\ threads[k].diff_evidence # None
                  /\ Verifiable(k) => CallsOf(k) # <<>>)
    /\ [][/\ git_log' # git_log => gh_log = <<>> /\ gh_log' = <<>>
          /\ gh_log' # gh_log => git_log' = git_log /\ pc = "resolve"]_vars

\* the auto-resolve loop has made a resolve call for the second thread after git
\* commands were run for both threads
C13_Witness ==
    /\ pc = "resolve"
    /\ \E e \in Resolves : gh_log[e].thread = 2
    /\ CallsOf(1) # <<>> /\ CallsOf(2) # <<>>

\* thread k as fetch_threads would build it as the only thread of the collection
Alone(k) ==
    [threads[k] EXCEPT !.thread_id = "PRRT_1", !.status = UNRESOLVED,
                       !.diff_evidence = None]

\* the platform signals classify_threads reads of thread k
Signals(k) ==
    [is_resolved |-> threads[k].is_resolved, is_outdated |-> threads[k].is_outdated,
     resolved_by |-> threads[k].resolved_by, original_commit |-> OriginalCommit(k),
     original_line |-> threads[k].original_line, path |-> threads[k].path]

\* what the git commands run for thread k came back with, in order
Responses(k) == [c \in 1..Len(CallsOf(k)) |-> CallsOf(k)[c].run]

\* the n-th response of rs, any outcome when there was no n-th command
ResponseOr(rs, n) == IF Len(rs) >= n THEN rs[n] ELSE TimedOut

\* C14: the status and evidence classify_threads gives a thread are those it
\* gives the same thread as the only one of the collection under the same git
\* responses, with the same git commands run; two threads of a collection with the
\* same signals and responses get the same result; and one more pass over a
\* classified thread under the same responses leaves status and evidence as they
\* are.
C14_IndependentIdempotent ==
    /\ \A k \in Threads :
          IsClassified(k) =>
              LET rs == Responses(k)
                  alone == classify_thread(Alone(k), ResponseOr(rs, 1), ResponseOr(rs, 2))
                  again == classify_thread(threads[k], ResponseOr(rs, 1),
                                           ResponseOr(rs, 2))
              IN  /\ ~alone.raised
                  /\ alone.thread.status = Result(k).status
                  /\ alone.thread.diff_evidence = Result(k).diff_evidence
                  /\ [c \in 1..Len(alone.calls) |-> alone.calls[c].run] = rs
                  /\ ~again.raised
                  /\ again.thread = threads[k]
    /\ \A j, k \in Threads :
          (IsClassified(j) /\ IsClassified(k) /\ Signals(j) = Signals(k)
           /\ Responses(j) = Responses(k)) => Result(j) = Result(k)

\* two threads with the same signals were classified ADDRESSED on the same diff,
\* and so was a thread that comes second after a resolved thread
C14_Witness ==
    /\ pc = "classify" /\ i = 3
    /\ Verifiable(2) /\ Result(2).status = ADDRESSED
    /\ Len(Responses(2)) = 1
    /\ \/ Signals(1) = Signals(2) /\ Responses(1) = Responses(2)
       \/ threads[1].is_resolved

----------------------------------------------------------------------------
(* Properties of parse_diff_hunks (SpecOverlap) *)

\* the position of the first newline of text from k on, Len(text) + 1 without one
RECURSIVE LineEnd(_, _)
LineEnd(text, k) ==
    IF k <= Len(text) /\ Char(text, k) # "\n" THEN LineEnd(text, k + 1) ELSE k

\* the characters j..k of s are decimal digits, and there is one at least
IsNumeral(s, j, k) == j <= k /\ \A p \in j..k : Char(s, p) \in Digits

\* the (start, count) pairs a line can be read as, taken as a hunk header
\* "@@ -<start> +..." or "@@ -<start>,<count> +...": none for any other line
HeaderReadings(line) ==
    IF ~StartsWithAt(line, 1, "@@ -") THEN {}
    ELSE UNION {
           IF ~IsNumeral(line, 5, a) THEN {}
           ELSE IF StartsWithAt(line, a + 1, " +")
           THEN {[start |-> int(SubSeq(line, 5, a)), count |-> 1]}
           ELSE IF StartsWithAt(line, a + 1, ",")
           THEN {[start |-> int(SubSeq(line, 5, a)),
                  count |-> int(SubSeq(line, a + 2, b))] :
                    b \in {b \in (a + 2)..Len(line) :
                             /\ IsNumeral(line, a + 2, b)
                             /\ StartsWithAt(line, b + 1, " +")}}
           ELSE {} : a \in 5..Len(line)}

\* for each line of text from position k on that has a reading as a hunk header,
\* the set of its readings, in the order of the lines
RECURSIVE HeaderLineReadings(_, _)
HeaderLineReadings(text, k) ==
    IF k > Len(text) THEN <<>>
    ELSE LET n == LineEnd(text, k)
             readings == HeaderReadings(SubSeq(text, k, n - 1))
         IN  (IF readings = {} THEN <<>> ELSE <<readings>>)
             \o HeaderLineReadings(text, n + 1)

\* the sequence of the sets {hunks[k]}
RECURSIVE Singletons(_, _)
Singletons(hunks, k) ==
    IF k > Len(hunks) THEN <<>> ELSE <<{hunks[k]}>> \o Singletons(hunks, k + 1)

\* C15: parse_diff_hunks returns one (start, count) pair for each hunk-header line
\* "@@ -<start>[,<count>] +..." of the text, in the order of the lines; count is the
\* written count when there is one, 0 included, and 1 when there is none; a
\* header line has that one reading only, and a text without hunk header gives
\* the empty sequence.
C15_OnePairPerHeader ==
    DiffObtained =>
        Singletons(parse_diff_hunks(probe.diffRun[1].stdout), 1)
            = HeaderLineReadings(probe.diffRun[1].stdout, 1)

\* the text is a header without count followed by a header with the count 0
\* written out
C15_Witness ==
    /\ DiffObtained
    /\ Len(HeaderLineReadings(probe.diffRun[1].stdout, 1)) = 2
    /\ parse_diff_hunks(probe.diffRun[1].stdout) =
          <<[start |-> 2, count |-> 1], [start |-> 3, count |-> 0]>>

----------------------------------------------------------------------------
(* Properties of the report *)

\* the threads the printed report shows: the entries of the JSON list, or the
\* rows of the detail table
ReportedIds ==
    IF args.json_output = Some(TRUE)
    THEN {report[1][k].thread_id : k \in 1..Len(report[1])}
    ELSE {report[1].rows[k].thread_id : k \in 1..Len(report[1].rows)}

\* C16: the report of a run with --exclude-resolved, in markdown or in JSON, shows
\* exactly the threads whose final status is not RESOLVED: no thread that was
\* classified RESOLVED or auto-resolved in the run, and every other thread.
C16_ExcludeResolvedSkips ==
    (pc = "done" /\ args.exclude_resolved = Some(TRUE)) =>
        ReportedIds = {threads[k].thread_id : k \in {j \in Threads :
                                                        threads[j].status # RESOLVED}}

\* thread t with the status and the evidence of thread u
WithResultOf(t, u) == [t EXCEPT !.status = u.status, !.diff_evidence = u.diff_evidence]

\* the resolve call of thread k succeeded
AutoResolved(k) == \E e \in Resolves : gh_log[e].thread = k /\ Succeeded(gh_log[e])

\* C20: after the fetch no step of the run changes anything of a thread but its
\* status and diff_evidence (thread_id, path, line, original_line, is_resolved,
\* is_outdated, resolved_by, diff_hunk and comments stay as fetched); a thread
\* auto-resolved in the run has status RESOLVED with is_resolved false and
\* resolved_by absent, and the JSON report shows it so.
C20_OnlyStatusAndEvidenceWritten ==
    /\ [][pc # "fetch" =>
             /\ Len(threads') = Len(threads)
             /\ \A k \in Threads : WithResultOf(threads'[k], threads[k]) = threads[k]]_vars
    /\ [](\A k \in Threads :
             AutoResolved(k) =>
                 /\ threads[k].status = RESOLVED
                 /\ threads[k].is_resolved = FALSE
                 /\ threads[k].resolved_by = None
                 /\ (pc = "done" /\ args.json_output = Some(TRUE)) =>
                       /\ report[1][k].thread_id = threads[k].thread_id
                       /\ report[1][k].status = RESOLVED
                       /\ report[1][k].is_resolved = FALSE
                       /\ report[1][k].resolved_by = None)

\* the JSON report of a run shows a thread that the run auto-resolved
C20_Witness ==
    /\ pc = "done"
    /\ args.json_output = Some(TRUE)
    /\ \E k \in Threads :
          /\ AutoResolved(k)
          /\ report[1][k].status = RESOLVED
          /\ report[1][k].is_resolved = FALSE

\* thread k is not one the diff analysis is run for: it is resolved, outdated, or
\* lacks the commit or the line
NotAnalysed(k) == threads[k].is_resolved \/ threads[k].is_outdated \/ LacksData(k)

\* C21: a thread whose git diff exits non-zero while git cat-file of its path at
\* HEAD succeeds gets (false, "diff failed") and is UNRESOLVED, and it is ADDRESSED
\* or auto-resolved at no point of the run; git cat-file is run only after a git
\* diff of the same thread that exited non-zero, so a thread has two git commands
\* at most, the diff first, and a resolved, outdated or data-missing thread has
\* none.
C21_DiffFailedFileStillThere ==
    \A k \in Threads :
        LET calls == CallsOf(k)
        IN  /\ Len(calls) <= 2
            /\ Len(calls) >= 1 => calls[1].args[1] = "diff"
            /\ Len(calls) = 2 => calls[2].args[1] = "cat-file" /\ Failed(calls[1])
            /\ NotAnalysed(k) => calls = <<>>
            /\ DiffFailedFileThere(k) =>
                  /\ threads[k].status = UNRESOLVED
                  /\ threads[k].diff_evidence = Some("diff failed")
                  /\ \A e \in Resolves : gh_log[e].thread # k

\* the run is over with auto-resolution: it resolved another thread, and the
\* thread whose git diff failed while its file is still there is UNRESOLVED
C21_Witness ==
    /\ pc = "done"
    /\ args.auto_resolve = Some(TRUE)
    /\ \E k \in Threads :
          /\ DiffFailedFileThere(k)
          /\ threads[k].status = UNRESOLVED
    /\ \E k \in Threads : AutoResolved(k) /\ Len(CallsOf(k)) = 1

----------------------------------------------------------------------------
(* review_dashboard.py: find_user_prs *)

\* for search_term, interaction_type in [...]: the three searches, in order
Searches ==
    <<[search_term |-> "reviewed-by", interaction_type |-> "reviewer"],
      [search_term |-> "commenter", interaction_type |-> "commenter"],
      [search_term |-> "review-requested", interaction_type |-> "reviewer"]>>

\* the open PRs of the repository, and who can be logged in
PrNumbers == {5, 10, 42}
Usernames == {"testuser", "unknown"}

\* one object of the JSON list gh pr list prints: author is null (None) or an
\* object with a login
PrObject(num, author) ==
    [number |-> num, title |-> "PR " \o ToString(num), author |-> author,
     url |-> "https://github.com/o/r/pull/" \o ToString(num)]

\* author.get("login", "unknown") if author else "unknown"
AuthorLogin(author) == IF author # None THEN author[1].login ELSE "unknown"

\* variant: the later search replaces the interaction
MergeInteraction_Overwrites(interaction, interaction_type) == interaction_type

\* what a further search that returns the PR makes of its interaction
MergeInteraction(interaction, interaction_type) ==
    IF interaction # interaction_type THEN "both" ELSE interaction

\* the body of "for pr in prs": seen keeps its entries in insertion order
SeePr(seen, pr, interaction_type) ==
    LET num == pr.number
        author_login == AuthorLogin(pr.author)
    IN  IF \E k \in 1..Len(seen) : seen[k].number = num
        THEN [k \in 1..Len(seen) |->
                 IF seen[k].number = num
                 THEN [seen[k] EXCEPT !.interaction =
                                          MergeInteraction(@, interaction_type)]
                 ELSE seen[k]]
        ELSE Append(seen, [number |-> num, title |-> pr.title,
                           author |-> author_login, url |-> pr.url,
                           interaction |-> interaction_type])

\* for pr in prs, from the k-th on
RECURSIVE SeePrs(_, _, _, _)
SeePrs(seen, prs, k, interaction_type) ==
    IF k > Len(prs) THEN seen
    ELSE SeePrs(SeePr(seen, prs[k], interaction_type), prs, k + 1, interaction_type)

\* sorted(entries, key=lambda p: p["number"]): stable, the first least entry first
RECURSIVE SortedByNumber(_)
SortedByNumber(entries) ==
    IF Len(entries) = 0 THEN <<>>
    ELSE LET m == CHOOSE k \in 1..Len(entries) :
                     \A j \in 1..Len(entries) :
                        \/ entries[k].number < entries[j].number
                        \/ entries[k].number = entries[j].number /\ k <= j
             rest == [j \in 1..(Len(entries) - 1) |->
                         IF j < m THEN entries[j] ELSE entries[j + 1]]
         IN  <<entries[m]>> \o SortedByNumber(rest)

\* pr["author"] != username
NotOwn(entry, username) == entry.author # username

\* the return of find_user_prs
SortedNotOwn(seen, username) ==
    LET Keep(entry) == NotOwn(entry, username)
    IN  SortedByNumber(SelectSeq(seen, Keep))

\* the lists of at most n different numbers of S, in any order
RECURSIVE ListsUpTo(_, _)
ListsUpTo(S, n) ==
    IF n = 0 THEN {<<>>}
    ELSE LET shorter == ListsUpTo(S, n - 1)
         IN  shorter \cup {Append(l, x) : l \in shorter, x \in S}

SearchAnswers ==
    {l \in ListsUpTo(PrNumbers, MaxPerSearch) :
        \A j, k \in 1..Len(l) : j # k => l[j] # l[k]}

\* the call find_user_prs(repo, username): the authors are those of the PRs on the
\* platform, the own PRs of the user among them
InitDiscover ==
    /\ args = [auto_resolve |-> None, json_output |-> None, exclude_resolved |-> None]
    /\ threads = <<>>
    /\ pc = "fetch"
    /\ i = 1
    /\ classified = None
    /\ git_log = <<>>
    /\ gh_log = <<>>
    /\ report = None
    /\ probe = None
    /\ \E username \in Usernames :
         \E authors \in [PrNumbers -> {None, Some([login |-> "alice"]),
                                       Some([login |-> username])}] :
            dash = [pc |-> "search", username |-> username, authors |-> authors,
                    s |-> 1, answers |-> <<>>, seen |-> <<>>, result |-> None]

\* one round of the loop over the searches: run_gh, json.loads, for pr in prs
Search ==
    /\ dash.pc = "search"
    /\ dash.s <= Len(Searches)
    /\ \E nums \in SearchAnswers :
         LET prs == [k \in 1..Len(nums) |-> PrObject(nums[k], dash.authors[nums[k]])]
         IN  dash' = [dash EXCEPT
                        !.answers = Append(@, prs),
                        !.seen = SeePrs(@, prs, 1, Searches[dash.s].interaction_type),
                        !.s = @ + 1]
    /\ UNCHANGED <<runVars, probe>>

\* run_gh exits the process when gh pr list fails
SearchFail ==
    /\ dash.pc = "search"
    /\ dash.s <= Len(Searches)
    /\ dash' = [dash EXCEPT !.pc = "exited"]
    /\ UNCHANGED <<runVars, probe>>

\* return sorted([pr for pr in seen.values() if pr["author"] != username], ...)
Return ==
    /\ dash.pc = "search"
    /\ dash.s > Len(Searches)
    /\ dash' = [dash EXCEPT !.pc = "returned",
                            !.result = Some(SortedNotOwn(dash.seen, dash.username))]
    /\ UNCHANGED <<runVars, probe>>

NextDiscover ==
    \/ Search
    \/ SearchFail
    \/ Return

SpecDiscover == InitDiscover /\ [][NextDiscover]_vars

----------------------------------------------------------------------------
(* Properties of find_user_prs (SpecDiscover) *)

\* the PR numbers search s returned
ReturnedBy(s) == {dash.answers[s][k].number : k \in 1..Len(dash.answers[s])}

\* the entries of the result
Entries == 1..Len(dash.result[1])

\* C17: find_user_prs returns the open PRs that at least one of the three
\* searches returned and whose author is not the user, one entry per PR number,
\* in strictly ascending order of the number; a PR whose author is null is kept,
\* with "unknown" as author.
C17_FoundPrsSorted ==
    dash.pc = "returned" =>
        LET result == dash.result[1]
            found == ReturnedBy(1) \cup ReturnedBy(2) \cup ReturnedBy(3)
            others == {n \in found : dash.authors[n] # Some([login |-> dash.username])}
        IN  /\ {result[k].number : k \in Entries} = others
            /\ \A j, k \in Entries : j < k => result[j].number < result[k].number
            /\ \A k \in Entries :
                  dash.authors[result[k].number] = None => result[k].author = "unknown"

\* C18: in the result of find_user_prs the interaction of a PR is "both" exactly
\* when the commenter search and at least one of the reviewed-by and
\* review-requested searches returned it, "reviewer" when only those two
\* returned it, and "commenter" when only the commenter search did.
C18_InteractionOfSearches ==
    dash.pc = "returned" =>
        \A k \in Entries :
            LET e == dash.result[1][k]
                asReviewer == e.number \in ReturnedBy(1) \cup ReturnedBy(3)
                asCommenter == e.number \in ReturnedBy(2)
            IN  /\ e.interaction = "both" <=> (asReviewer /\ asCommenter)
                /\ (asReviewer /\ ~asCommenter) => e.interaction = "reviewer"
                /\ (asCommenter /\ ~asReviewer) => e.interaction = "commenter"

\* the result has a PR that the commenter and the review-requested search
\* returned, one that only reviewer searches returned and one that only the
\* commenter search returned
C18_Witness ==
    /\ dash.pc = "returned"
    /\ \E k \in Entries :
          /\ dash.result[1][k].interaction = "both"
          /\ dash.result[1][k].number \in ReturnedBy(2) \cap ReturnedBy(3)
          /\ dash.result[1][k].number \notin ReturnedBy(1)
    /\ \E k \in Entries : dash.result[1][k].interaction = "reviewer"
    /\ \E k \in Entries : dash.result[1][k].interaction = "commenter"

----------------------------------------------------------------------------
(* review_dashboard.py: the act subcommand *)

\* text.strip()
RECURSIVE Strip(_)
Strip(text) ==
    IF Len(text) = 0 THEN text
    ELSE IF Char(text, 1) \in Whitespace THEN Strip(SubSeq(text, 2, Len(text)))
    ELSE IF Char(text, Len(text)) \in Whitespace
         THEN Strip(SubSeq(text, 1, Len(text) - 1))
    ELSE text

\* the position after the longest run of characters other than "/" from k on
\* (regex [^/]+, greedy)
RECURSIVE SegmentEnd(_, _)
SegmentEnd(s, k) ==
    IF k <= Len(s) /\ Char(s, k) # "/" THEN SegmentEnd(s, k + 1) ELSE k

\* re.match of (?:git@github\.com:|https://github\.com/)(.+/.+?)(?:\.git)?$ on a
\* remote URL of one line: group 1, or None. The first .+ is greedy and ends at
\* the last "/" that leaves a character after it, the lazy .+? gives up a final
\* ".git" when something is left before it
MatchRemote(remote) ==
    LET prefix == IF StartsWithAt(remote, 1, "git@github.com:") THEN "git@github.com:"
                  ELSE IF StartsWithAt(remote, 1, "https://github.com/")
                  THEN "https://github.com/"
                  ELSE ""
        rest == SubSeq(remote, Len(prefix) + 1, Len(remote))
        slashes == {j \in 2..(Len(rest) - 1) : Char(rest, j) = "/"}
        last == CHOOSE j \in slashes : \A k \in slashes : k <= j
        tail == Len(rest) - last
    IN  IF prefix = "" \/ slashes = {} THEN None
        ELSE IF tail > 4 /\ StartsWithAt(rest, Len(rest) - 3, ".git")
        THEN Some(SubSeq(rest, 1, Len(rest) - 4))
        ELSE Some(rest)

\* detect_repo, given the outcome of git remote get-url origin. raised: the
\* timeout; exits: sys.exit(1)
detect_repo(run) ==
    LET remote == run_git(run)
        m == MatchRemote(Strip(remote.value[1]))
    IN  IF remote.raised THEN [raised |-> TRUE, exits |-> FALSE, value |-> ""]
        ELSE IF ~TruthyStr(remote.value)
        THEN [raised |-> FALSE, exits |-> TRUE, value |-> ""]
        ELSE IF m # None THEN [raised |-> FALSE, exits |-> FALSE, value |-> m[1]]
        ELSE [raised |-> FALSE, exits |-> TRUE, value |-> ""]

\* re.match of https://github\.com/([^/]+/[^/]+)/pull/(\d+) on --pr: the groups,
\* or None
MatchPrUrl(pr_arg) ==
    LET p == Len("https://github.com/") + 1
        e1 == SegmentEnd(pr_arg, p)
        e2 == SegmentEnd(pr_arg, e1 + 1)
        e3 == DigitsEnd(pr_arg, e2 + 6)
    IN  IF /\ StartsWithAt(pr_arg, 1, "https://github.com/")
           /\ e1 > p /\ StartsWithAt(pr_arg, e1, "/")
           /\ e2 > e1 + 1 /\ StartsWithAt(pr_arg, e2, "/pull/")
           /\ e3 > e2 + 6
        THEN Some([group1 |-> SubSeq(pr_arg, p, e2 - 1),
                   group2 |-> SubSeq(pr_arg, e2 + 6, e3 - 1)])
        ELSE None

\* pr_arg.isdigit()
isdigit(text) == Len(text) > 0 /\ \A k \in 1..Len(text) : Char(text, k) \in Digits

\* the labels and the past forms of the actions
ActionLabel(action) ==
    CASE action = "approve" -> "APPROVE"
      [] action = "request-changes" -> "REQUEST_CHANGES"
      [] action = "comment" -> "COMMENT"
      [] OTHER -> action
ActionPast(action) ==
    CASE action = "approve" -> "approved"
      [] action = "request-changes" -> "requested changes on"
      [] action = "comment" -> "commented on"
      [] OTHER -> action

\* format_action_draft: the lines joined by newlines (the last line is written
\* here without the backquotes it has around --draft, which a TLA+ string
\* cannot hold)
format_action_draft(repo, pr_number, action, body) ==
    "# Action Draft\n" \o "\n**Repository:** " \o repo
    \o "\n**PR:** #" \o ToString(pr_number)
    \o "\n**Action:** " \o ActionLabel(action)
    \o "\n" \o (IF TruthyStr(body) THEN "\n**Body:**\n> " \o body[1]
                ELSE "\n**Body:** _(empty - will submit without comment)_")
    \o "\n" \o "\n---"
    \o "\nTo execute, run the same command without --draft."

\* the option of gh pr review for the action, None for an unknown action
ActionFlag(action) ==
    CASE action = "approve" -> Some("--approve")
      [] action = "request-changes" -> Some("--request-changes")
      [] action = "comment" -> Some("--comment")
      [] OTHER -> None

\* variant: any exit of gh counts as a success
Submitted_AnyExit(run) == TRUE

\* the test of the exit code of gh pr review
Submitted(run) == run.returncode = 0

\* execute_action, given the outcome of the gh command should it be run. raised:
\* the timeout; value: what it returns; calls: the gh commands it ran
execute_action(repo, pr_number, action, body, run) ==
    LET flag == ActionFlag(action)
        gh_args == <<"pr", "review", ToString(pr_number), "--repo", repo>>
                   \o flag
                   \o (IF TruthyStr(body) THEN <<"--body", body[1]>> ELSE <<>>)
        call == [args |-> gh_args, run |-> run]
    IN  IF flag = None THEN [raised |-> FALSE, value |-> FALSE, calls |-> <<>>]
        ELSE IF run.timed_out
        THEN [raised |-> TRUE, value |-> FALSE, calls |-> <<call>>]
        ELSE [raised |-> FALSE, value |-> Submitted(run), calls |-> <<call>>]

\* what the command line and the external commands can be
PrArgs == {"42", "https://github.com/o/r/pull/42", "abc", "o/r#42"}
Actions == {"approve", "request-changes", "comment"}
Bodies == {None, Some(""), Some("Fix X")}
RepoArgs == {None, Some("owner/repo")}
RemoteRuns ==
    {TimedOut, Completed(128, "")}
    \cup {Completed(0, out) : out \in {"git@github.com:owner/repo.git\n",
                                       "https://github.com/owner/repo\n",
                                       "https://gitlab.com/owner/repo.git\n"}}
ReviewRuns == {TimedOut, Completed(0, ""), Completed(1, "")}

\* cmd_act(args) is entered with the parsed command line
InitAct ==
    /\ args = [auto_resolve |-> None, json_output |-> None, exclude_resolved |-> None]
    /\ threads = <<>>
    /\ pc = "fetch"
    /\ i = 1
    /\ classified = None
    /\ git_log = <<>>
    /\ gh_log = <<>>
    /\ report = None
    /\ probe = None
    /\ \E pr \in PrArgs, action \in Actions, body \in Bodies, repo \in RepoArgs,
          draft \in BOOLEAN :
         dash = [pc |-> "repo",
                 args |-> [pr |-> pr, action |-> action, body |-> body,
                           repo |-> repo, draft |-> draft],
                 repo |-> None, pr_number |-> None,
                 git_calls |-> <<>>, gh_calls |-> <<>>,
                 stdout |-> <<>>, exit_code |-> None]

\* repo = args.repo or detect_repo()
ActRepo ==
    /\ dash.pc = "repo"
    /\ IF TruthyStr(dash.args.repo)
       THEN dash' = [dash EXCEPT !.pc = "pr", !.repo = dash.args.repo]
       ELSE \E run \in RemoteRuns :
              LET r == detect_repo(run)
                  called == [dash EXCEPT !.git_calls =
                                Append(@, [args |-> <<"remote", "get-url", "origin">>,
                                           run |-> run])]
              IN  dash' = IF r.raised THEN [called EXCEPT !.pc = "crashed"]
                          ELSE IF r.exits
                          THEN [called EXCEPT !.pc = "exited", !.exit_code = Some(1)]
                          ELSE [called EXCEPT !.pc = "pr", !.repo = Some(r.value)]
    /\ UNCHANGED <<runVars, probe>>

\* the --pr argument is read as a URL or as a number, or the process exits
ActPr ==
    /\ dash.pc = "pr"
    /\ LET m == MatchPrUrl(dash.args.pr)
       IN  dash' = IF m # None
                   THEN [dash EXCEPT !.pc = "act", !.repo = Some(m[1].group1),
                                     !.pr_number = Some(int(m[1].group2))]
                   ELSE IF isdigit(dash.args.pr)
                   THEN [dash EXCEPT !.pc = "act",
                                     !.pr_number = Some(int(dash.args.pr))]
                   ELSE [dash EXCEPT !.pc = "exited", !.exit_code = Some(1)]
    /\ UNCHANGED <<runVars, probe>>

\* if args.draft: print(format_action_draft(...)); return
ActDraft ==
    /\ dash.pc = "act"
    /\ dash.args.draft
    /\ dash' = [dash EXCEPT
                  !.pc = "done",
                  !.stdout = Append(@, format_action_draft(dash.repo[1],
                                           dash.pr_number[1], dash.args.action,
                                           dash.args.body)),
                  !.exit_code = Some(0)]
    /\ UNCHANGED <<runVars, probe>>

\* success = execute_action(...), then the success message or sys.exit(1)
ActExecute ==
    /\ dash.pc = "act"
    /\ ~dash.args.draft
    /\ \E run \in ReviewRuns :
         LET success == execute_action(dash.repo[1], dash.pr_number[1],
                                       dash.args.action, dash.args.body, run)
             called == [dash EXCEPT !.gh_calls = @ \o success.calls]
         IN  dash' = IF success.raised THEN [called EXCEPT !.pc = "crashed"]
                     ELSE IF success.value
                     THEN [called EXCEPT
                             !.pc = "done",
                             !.stdout = Append(@, "Successfully "
                                                  \o ActionPast(dash.args.action)
                                                  \o " " \o dash.repo[1] \o "#"
                                                  \o ToString(dash.pr_number[1])),
                             !.exit_code = Some(0)]
                     ELSE [called EXCEPT !.pc = "exited", !.exit_code = Some(1)]
    /\ UNCHANGED <<runVars, probe>>

NextAct ==
    \/ ActRepo
    \/ ActPr
    \/ ActDraft
    \/ ActExecute

SpecAct == InitAct /\ [][NextAct]_vars

----------------------------------------------------------------------------
(* Properties of the act subcommand (SpecAct) *)

\* cmd_act is over: it returned, exited or was left by an exception
ActOver == dash.pc \in {"done", "exited", "crashed"}

\* the run printed the success message
ReportedSuccess ==
    \E k \in 1..Len(dash.stdout) : StartsWithAt(dash.stdout[k], 1, "Successfully ")

\* the gh commands run so far are review submissions: gh pr review ...
Submissions == {k \in 1..Len(dash.gh_calls) : dash.gh_calls[k].args[2] = "review"}

\* C19 as stated: with --draft no review submission is made; without --draft
\* the run makes exactly one, and reports success only when it exited with 0.
C19_DraftNeverSubmitsElseOnce ==
    /\ dash.args.draft => Submissions = {}
    /\ (~dash.args.draft /\ ActOver) => Cardinality(Submissions) = 1
    /\ ReportedSuccess =>
          /\ Cardinality(Submissions) = 1
          /\ dash.gh_calls[1].run = Completed(0, "")

\* C19 (amended): with --draft no review submission is made, for every action
\* and body. Without --draft a run that has determined the repository and the
\* PR number makes exactly one submission, and a run that could not (no usable
\* remote, a --pr that is neither a pull-request URL nor a number) makes none and
\* exits with status 1. Success is reported exactly when the one submission
\* exited with code 0.
C19_SubmitsOnceWhenPrKnown ==
    /\ dash.args.draft => Submissions = {} /\ ~ReportedSuccess
    /\ Cardinality(Submissions) <= 1
    /\ (~dash.args.draft /\ ActOver) =>
          IF dash.repo # None /\ dash.pr_number # None
          THEN /\ Cardinality(Submissions) = 1
               /\ dash.gh_calls[1].args =
                     <<"pr", "review", ToString(dash.pr_number[1]), "--repo",
                       dash.repo[1], "--" \o dash.args.action>>
                     \o (IF dash.args.body \in {None, Some("")} THEN <<>>
                         ELSE <<"--body", dash.args.body[1]>>)
               /\ ReportedSuccess <=> dash.gh_calls[1].run = Completed(0, "")
               /\ dash.gh_calls[1].run = Completed(0, "") <=> dash.exit_code = Some(0)
          ELSE /\ Submissions = {}
               /\ ~ReportedSuccess
               /\ dash.pc = "crashed" \/ dash.exit_code = Some(1)

\* a run without --draft submitted a review with a body and reported success,
\* after the repository was taken from the remote
C19_Witness ==
    /\ dash.pc = "done"
    /\ ~dash.args.draft
    /\ dash.args.body = Some("Fix X")
    /\ Len(dash.git_calls) = 1
    /\ Cardinality(Submissions) = 1
    /\ ReportedSuccess

====
